---- MODULE Spec2Model ----
(***************************************************************************)
(* Model of the Shopfloor operation server: the contract load at import,   *)
(* the /tools/list_operations and /tools/run handlers of the three server  *)
(* variants (server.py, server_v2.py, new_server.py) and the query         *)
(* executor ShopfloorGraphTool.call.                                       *)
(*                                                                         *)
(* Values are records [t, n, e, s]:                                        *)
(*   t = "int"   : the Python int n                                        *)
(*   t = "float" : the Python float n * 10^-e                              *)
(*   t = "str"   : the Python str whose characters are the sequence s      *)
(***************************************************************************)
EXTENDS Integers, Sequences, FiniteSets, TLC

\* ------------------------------------------------------------------ bounds
NumCallers == 2      \* request handlers that may run at the same time
MaxCalls == 3        \* /tools/run requests accepted in one behaviour

Callers == 1..NumCallers

\* ------------------------------------------------------------------ values
IntV(n) == [t |-> "int", n |-> n, e |-> 0, s |-> <<>>]
FloatV(n, e) == [t |-> "float", n |-> n, e |-> e, s |-> <<>>]
StrV(s) == [t |-> "str", n |-> 0, e |-> 0, s |-> s]

Digits == <<"0", "1", "2", "3", "4", "5", "6", "7", "8", "9">>

IsDigit(c) == \E i \in 1..10 : Digits[i] = c

DigitVal(c) == (CHOOSE i \in 1..10 : Digits[i] = c) - 1

Pow10(k) == IF k = 0 THEN 1 ELSE IF k = 1 THEN 10 ELSE IF k = 2 THEN 100 ELSE 1000

\* the characters of s that are not the decimal point, in order
NoDots(s) == SelectSeq(s, LAMBDA c : c # ".")

RECURSIVE DigitsValue(_)
DigitsValue(s) ==
    IF Len(s) = 0 THEN 0
    ELSE 10 * DigitsValue(SubSeq(s, 1, Len(s) - 1)) + DigitVal(s[Len(s)])

RECURSIVE IntChars(_)
IntChars(n) ==
    IF n < 10 THEN <<Digits[n + 1]>>
    ELSE IntChars(n \div 10) \o <<Digits[(n % 10) + 1]>>

RECURSIVE FracChars(_, _)
FracChars(n, e) ==
    IF e = 0 THEN <<>>
    ELSE FracChars(n \div 10, e - 1) \o <<Digits[(n % 10) + 1]>>

RECURSIVE Normalize(_, _)
Normalize(n, e) ==
    IF e > 0 /\ n % 10 = 0 THEN Normalize(n \div 10, e - 1) ELSE FloatV(n, e)

\* "." in str(value)
HasDot(s) == \E i \in 1..Len(s) : s[i] = "."

\* int(text): a non-empty run of decimal digits, anything else raises
ParseInt(s) ==
    IF Len(s) > 0 /\ \A i \in 1..Len(s) : IsDigit(s[i])
    THEN [ok |-> TRUE, val |-> IntV(DigitsValue(s))]
    ELSE [ok |-> FALSE, val |-> IntV(0)]

\* float(text): digits with at most one decimal point and at least one digit
ParseFloat(s) ==
    LET d == NoDots(s)
        dot == IF HasDot(s) THEN CHOOSE i \in 1..Len(s) : s[i] = "." ELSE Len(s)
    IN  IF /\ Len(d) > 0
           /\ Len(s) - Len(d) <= 1
           /\ \A i \in 1..Len(d) : IsDigit(d[i])
        THEN [ok |-> TRUE, val |-> Normalize(DigitsValue(d), Len(s) - dot)]
        ELSE [ok |-> FALSE, val |-> IntV(0)]

\* str(value)
PyStr(v) ==
    IF v.t = "str" THEN v
    ELSE IF v.t = "int" THEN StrV(IntChars(v.n))
    ELSE StrV(IntChars(v.n \div Pow10(v.e)) \o <<".">> \o
              (IF v.e = 0 THEN <<"0">> ELSE FracChars(v.n % Pow10(v.e), v.e)))

\* float(value) for any value
PyFloat(v) ==
    IF v.t = "int" THEN [ok |-> TRUE, val |-> FloatV(v.n, 0)]
    ELSE IF v.t = "float" THEN [ok |-> TRUE, val |-> v]
    ELSE ParseFloat(v.s)

\* cast_input_value of server.py and server_v2.py
cast_input_value(value, type_name) ==
    IF type_name = "number" THEN
        IF value.t \in {"int", "float"} THEN [ok |-> TRUE, val |-> value]
        ELSE IF HasDot(PyStr(value).s) THEN PyFloat(value)
        ELSE ParseInt(value.s)
    ELSE IF type_name = "string" THEN [ok |-> TRUE, val |-> PyStr(value)]
    ELSE [ok |-> TRUE, val |-> value]

\* the inline cast of new_server.py
cast_inline(value, type_name) ==
    IF type_name = "number" THEN PyFloat(value)
    ELSE IF type_name = "string" THEN [ok |-> TRUE, val |-> PyStr(value)]
    ELSE [ok |-> TRUE, val |-> value]

\* --------------------------------------------------------------- contracts
EmptyMap == [k \in {} |-> 0]

Field(key, type, required) == [key |-> key, type |-> type, required |-> required]

\* an operation definition: the JSON keys it has and its ordered "inputs" mapping;
\* a field whose type is "" declares no "type"
OpDef(keys, inputs) == [keys |-> keys, inputs |-> inputs]

OpsA ==
    [name \in {"highVibrationMachines", "overTemperature", "listMachines", "emptyOp"} |->
        IF name = "highVibrationMachines" THEN
            OpDef({"description", "inputs", "cypher"},
                  <<Field("threshold", "number", TRUE), Field("unit", "string", TRUE)>>)
        ELSE IF name = "overTemperature" THEN
            OpDef({"description", "inputs", "cypher"},
                  <<Field("threshold", "number", FALSE), Field("unit", "string", TRUE)>>)
        ELSE IF name = "listMachines" THEN
            OpDef({"description", "cypher"}, <<>>)
        ELSE OpDef({}, <<>>)]

OpsB ==
    [name \in {"highVibrationMachines", "listMachines"} |->
        IF name = "highVibrationMachines" THEN
            OpDef({"inputs"},
                  <<Field("extra", "", FALSE), Field("threshold", "opaque", TRUE)>>)
        ELSE OpDef({"inputs", "cypher"}, <<Field("unit", "opaque", FALSE)>>)]

\* what a contract path can hold: nothing, text that is not JSON, or a JSON object
File(kind, hasOps, ops) == [kind |-> kind, hasOps |-> hasOps, ops |-> ops]

Files ==
    { File("absent", FALSE, EmptyMap),
      File("malformed", FALSE, EmptyMap),
      File("json", FALSE, EmptyMap),
      File("json", TRUE, OpsA),
      File("json", TRUE, OpsB) }

OpNames == {"highVibrationMachines", "overTemperature", "listMachines", "emptyOp", "noSuchOp"}

Keys == {"threshold", "unit", "extra"}

Text(s) == StrV(s)

Candidates(k) ==
    IF k = "threshold" THEN
        { IntV(7), Text(<<"7">>), Text(<<"7", ".", "5">>), Text(<<"a", "b", "c">>) }
    ELSE IF k = "unit" THEN
        { Text(<<"m", "m", "/", "s">>), Text(<<"p", "s", "i">>) }
    ELSE { Text(<<"x">>) }

AllCandidates == UNION { Candidates(k) : k \in Keys }

RawInputs ==
    UNION { { r \in [D -> AllCandidates] : \A k \in D : r[k] \in Candidates(k) } :
            D \in SUBSET Keys }

Variants == {"server", "server_v2", "new_server"}

\* -------------------------------------------------------------- validation
\* dict.get("operations", {}) on the parsed contract
GetOperations(file) == IF file.hasOps THEN file.ops ELSE EmptyMap

\* op_schema.get("inputs", {}), in the order of the document
GetInputs(op) == IF "inputs" \in op.keys THEN op.inputs ELSE <<>>

\* the truth value Python gives an operation definition (an empty dict is falsy)
Truthy(op) == op.keys # {}

Cast(variant, value, type_name) ==
    IF variant = "new_server" THEN cast_inline(value, type_name)
    ELSE cast_input_value(value, type_name)

\* the field names the detail of a cast failure carries: new_server.py prints the
\* key, server.py and server_v2.py print the value and the type only
CastNamed(variant, key) == IF variant = "new_server" THEN {key} ELSE {}

Failed(status, err, named) ==
    [ok |-> FALSE, status |-> status, err |-> err, named |-> named, validated |-> EmptyMap]

Passed(validated) ==
    [ok |-> TRUE, status |-> 0, err |-> "none", named |-> {}, validated |-> validated]

\* the loop of validate_and_cast_inputs from the i-th schema field on
RECURSIVE ValidateFrom(_, _, _, _, _)
ValidateFrom(variant, schema, inputs, i, validated) ==
    IF i > Len(schema) THEN Passed(validated)
    ELSE LET f == schema[i] IN
        IF f.required /\ f.key \notin DOMAIN inputs
        THEN Failed(400, "missing", {f.key})
        ELSE IF f.key \in DOMAIN inputs
        THEN IF f.type = ""
             THEN Failed(500, "schema", {})
             ELSE LET c == Cast(variant, inputs[f.key], f.type) IN
                  IF c.ok
                  THEN ValidateFrom(variant, schema, inputs, i + 1,
                                    (f.key :> c.val) @@ validated)
                  ELSE Failed(400, "cast", CastNamed(variant, f.key))
        ELSE ValidateFrom(variant, schema, inputs, i + 1, validated)

\* validation that never looks at "required"
validate_without_required(variant, op_schema, inputs) ==
    ValidateFrom(variant,
                 [i \in 1..Len(GetInputs(op_schema)) |->
                     [GetInputs(op_schema)[i] EXCEPT !.required = FALSE]],
                 inputs, 1, EmptyMap)

validate_and_cast_inputs(variant, op_schema, inputs) ==
    ValidateFrom(variant, GetInputs(op_schema), inputs, 1, EmptyMap)

\* ------------------------------------------------------------ the executor
allowed_units == { Text(<<"m", "m", "/", "s">>), Text(<<"C">>), Text(<<"d", "B">>) }

\* the required inputs of ShopfloorGraphTool.call that params lacks
Missing(op, params) ==
    { GetInputs(op)[i].key : i \in { j \in 1..Len(GetInputs(op)) :
          GetInputs(op)[j].required /\ GetInputs(op)[j].key \notin DOMAIN params } }

UnitAllowed(params) ==
    "unit" \in DOMAIN params => params["unit"] \in allowed_units

\* call without its unit whitelist
call_checks_no_whitelist(operations, op_name, params) ==
    IF op_name \notin DOMAIN operations THEN "unknown_operation"
    ELSE IF Missing(operations[op_name], params) # {} THEN "missing_inputs"
    ELSE IF "cypher" \notin operations[op_name].keys THEN "no_cypher"
    ELSE "go"

\* ShopfloorGraphTool.call up to the `with` statement: "go" when the session is
\* to be opened, otherwise the exception raised
call_checks(operations, op_name, params) ==
    IF op_name \notin DOMAIN operations THEN "unknown_operation"
    ELSE IF Missing(operations[op_name], params) # {} THEN "missing_inputs"
    ELSE IF ~UnitAllowed(params) THEN "unit"
    ELSE IF "cypher" \notin operations[op_name].keys THEN "no_cypher"
    ELSE "go"

\* ---------------------------------------------------------------- handlers
Failure(status, err, named) ==
    [status |-> status, err |-> err, named |-> named,
     inputs_received |-> EmptyMap, outputs |-> "none"]

\* the envelope run_tool returns
Envelope(validated_inputs, outputs) ==
    [status |-> 200, err |-> "none", named |-> {},
     inputs_received |-> validated_inputs, outputs |-> outputs]

NoResponse == Failure(0, "none", {})

\* an unknown operation answered as a bad request
not_found_as_400(name) == Failure(400, "not_found", {})

\* HTTPException(status_code=404, ...)
not_found(name) == Failure(404, "not_found", {})

\* the raw request inputs handed on instead of the validated ones
QueryParamsRaw(inputs, validated_inputs) == inputs

\* the params run_tool hands to ShopfloorGraphTool.call
QueryParams(inputs, validated_inputs) == validated_inputs

\* list_operations
list_operations(OPS) == DOMAIN OPS

\* OPERATIONS.get(name) followed by `if not op`
Found(OPS, name) == name \in DOMAIN OPS /\ Truthy(OPS[name])

\* run_tool up to the point where the executor opens its session: the response
\* when the request ends before that, [status |-> 0] when it goes on
run_tool(variant, OPS, toolOps, name, inputs) ==
    IF ~Found(OPS, name)
    THEN [resp |-> not_found(name), validated |-> EmptyMap]
    ELSE LET v == validate_and_cast_inputs(variant, OPS[name], inputs) IN
        IF ~v.ok
        THEN [resp |-> Failure(v.status, v.err, v.named), validated |-> EmptyMap]
        ELSE IF variant = "server"
        THEN [resp |-> Envelope(v.validated, "mock"), validated |-> v.validated]
        ELSE LET c == call_checks(toolOps, name, QueryParams(inputs, v.validated)) IN
            IF c = "go"
            THEN [resp |-> NoResponse, validated |-> v.validated]
            ELSE [resp |-> Failure(500, c, {}), validated |-> v.validated]

\* -------------------------------------------------------------- sessions
\* one session kept on the tool and handed to every call
AcquireShared(next) == 1

\* self.driver.session(): a session object of its own for this call
AcquireSession(next) == next

\* a session that stays open when the block is left
ExitSessionLeak(live, sid) == live

\* leaving the `with` block, normally or by an exception, closes the session
ExitSession(live, sid) == live \ {sid}

\* -------------------------------------------------------------------- state
VARIABLES
    variant,        \* which server module runs
    contractFile,   \* what TOOLS_FILE holds
    toolFile,       \* what the executor's contract_path holds
    phase,          \* "import", "tool_init", "serving" or "crashed"
    OPERATIONS,     \* the server's operation table
    toolOps,        \* ShopfloorGraphTool.operations
    listed,         \* the names the last list_operations response carried
    pc,             \* per caller: "idle", "checked", "opened", "ran", "done"
    req,            \* per caller: the request being handled
    validated,      \* per caller: validated_inputs
    resp,           \* per caller: the response of the finished request
    sess,           \* per caller: the session held in the `with` block, 0 if none
    bound,          \* per caller: what session.run was called with
    live,           \* the sessions the driver has open
    nextSid,        \* the next session object the driver creates
    calls           \* /tools/run requests accepted so far

vars == <<variant, contractFile, toolFile, phase, OPERATIONS, toolOps, listed,
          pc, req, validated, resp, sess, bound, live, nextSid, calls>>

config == <<variant, contractFile, toolFile>>

Request(name, inputs) == [operation |-> name, inputs |-> inputs]

NoRequest == Request("", EmptyMap)

Unbound == [called |-> FALSE, params |-> EmptyMap]

Init ==
    /\ variant \in Variants
    /\ contractFile \in Files
    /\ toolFile \in Files
    /\ (variant # "server_v2") => (toolFile = contractFile)
    /\ phase = "import"
    /\ OPERATIONS = EmptyMap
    /\ toolOps = EmptyMap
    /\ listed = {}
    /\ pc = [p \in Callers |-> "idle"]
    /\ req = [p \in Callers |-> NoRequest]
    /\ validated = [p \in Callers |-> EmptyMap]
    /\ resp = [p \in Callers |-> NoResponse]
    /\ sess = [p \in Callers |-> 0]
    /\ bound = [p \in Callers |-> Unbound]
    /\ live = {}
    /\ nextSid = 1
    /\ calls = 0

\* the module-level contract load: os.path.exists, json.load, .get("operations", {})
LoadContract ==
    /\ phase = "import"
    /\ IF contractFile.kind # "json"
       THEN /\ phase' = "crashed"
            /\ UNCHANGED OPERATIONS
       ELSE /\ OPERATIONS' = GetOperations(contractFile)
            /\ phase' = IF variant = "server" THEN "serving" ELSE "tool_init"
    /\ UNCHANGED <<config, toolOps, listed, pc, req, validated, resp, sess, bound,
                   live, nextSid, calls>>

\* ShopfloorGraphTool.__init__, run at import by server_v2.py and new_server.py;
\* envOk is false when the driver or the credentials are not available
InitTool ==
    /\ phase = "tool_init"
    /\ \E envOk \in BOOLEAN :
        IF ~envOk \/ toolFile.kind # "json"
        THEN /\ phase' = "crashed"
             /\ UNCHANGED toolOps
        ELSE /\ toolOps' = GetOperations(toolFile)
             /\ phase' = "serving"
    /\ UNCHANGED <<config, OPERATIONS, listed, pc, req, validated, resp, sess, bound,
                   live, nextSid, calls>>

\* GET /tools/list_operations
ListOperations ==
    /\ phase = "serving"
    /\ listed' = list_operations(OPERATIONS)
    /\ UNCHANGED <<config, phase, OPERATIONS, toolOps, pc, req, validated, resp, sess,
                   bound, live, nextSid, calls>>

\* POST /tools/run: lookup, validation and, in the variants with an executor, the
\* checks of ShopfloorGraphTool.call that precede the session
RunTool(p, names, payloads) ==
    /\ phase = "serving"
    /\ pc[p] \in {"idle", "done"}
    /\ calls < MaxCalls
    /\ \E name \in names, inputs \in payloads :
        LET r == run_tool(variant, OPERATIONS, toolOps, name, inputs) IN
        /\ req' = [req EXCEPT ![p] = Request(name, inputs)]
        /\ validated' = [validated EXCEPT ![p] = r.validated]
        /\ resp' = [resp EXCEPT ![p] = r.resp]
        /\ pc' = [pc EXCEPT ![p] = IF r.resp.status = 0 THEN "checked" ELSE "done"]
    /\ bound' = [bound EXCEPT ![p] = Unbound]
    /\ sess' = [sess EXCEPT ![p] = 0]
    /\ calls' = calls + 1
    /\ UNCHANGED <<config, phase, OPERATIONS, toolOps, listed, live, nextSid>>

\* with self.driver.session() as session
OpenSession(p) ==
    /\ pc[p] = "checked"
    /\ sess' = [sess EXCEPT ![p] = AcquireSession(nextSid)]
    /\ live' = live \cup {AcquireSession(nextSid)}
    /\ nextSid' = nextSid + 1
    /\ pc' = [pc EXCEPT ![p] = "opened"]
    /\ UNCHANGED <<config, phase, OPERATIONS, toolOps, listed, req, validated, resp,
                   bound, calls>>

\* res = session.run(cypher, params) returns
SessionRun(p) ==
    /\ pc[p] = "opened"
    /\ bound' = [bound EXCEPT ![p] =
            [called |-> TRUE, params |-> QueryParams(req[p].inputs, validated[p])]]
    /\ pc' = [pc EXCEPT ![p] = "ran"]
    /\ UNCHANGED <<config, phase, OPERATIONS, toolOps, listed, req, validated, resp,
                   sess, live, nextSid, calls>>

\* session.run raises: the `with` block is left and run_tool answers 500
SessionRunFails(p) ==
    /\ pc[p] = "opened"
    /\ bound' = [bound EXCEPT ![p] =
            [called |-> TRUE, params |-> QueryParams(req[p].inputs, validated[p])]]
    /\ live' = ExitSession(live, sess[p])
    /\ sess' = [sess EXCEPT ![p] = 0]
    /\ resp' = [resp EXCEPT ![p] = Failure(500, "execution", {})]
    /\ pc' = [pc EXCEPT ![p] = "done"]
    /\ UNCHANGED <<config, phase, OPERATIONS, toolOps, listed, req, validated,
                   nextSid, calls>>

\* return [r.data() for r in res], then the response envelope of run_tool
ReturnRows(p) ==
    /\ pc[p] = "ran"
    /\ live' = ExitSession(live, sess[p])
    /\ sess' = [sess EXCEPT ![p] = 0]
    /\ resp' = [resp EXCEPT ![p] = Envelope(validated[p], "rows")]
    /\ pc' = [pc EXCEPT ![p] = "done"]
    /\ UNCHANGED <<config, phase, OPERATIONS, toolOps, listed, req, validated, bound,
                   nextSid, calls>>

\* reading the rows raises: the `with` block is left and run_tool answers 500
ReturnRowsFails(p) ==
    /\ pc[p] = "ran"
    /\ live' = ExitSession(live, sess[p])
    /\ sess' = [sess EXCEPT ![p] = 0]
    /\ resp' = [resp EXCEPT ![p] = Failure(500, "execution", {})]
    /\ pc' = [pc EXCEPT ![p] = "done"]
    /\ UNCHANGED <<config, phase, OPERATIONS, toolOps, listed, req, validated, bound,
                   nextSid, calls>>

\* one request handler at a time, any request
Next ==
    \/ LoadContract
    \/ InitTool
    \/ ListOperations
    \/ RunTool(1, OpNames, RawInputs)
    \/ OpenSession(1)
    \/ SessionRun(1)
    \/ SessionRunFails(1)
    \/ ReturnRows(1)
    \/ ReturnRowsFails(1)

Spec == Init /\ [][Next]_vars

\* the requests the concurrent handlers draw from
ConcurrentNames == {"highVibrationMachines", "noSuchOp"}

ConcurrentInputs ==
    { r \in RawInputs :
        /\ "extra" \notin DOMAIN r
        /\ "threshold" \in DOMAIN r => r["threshold"] = Text(<<"7", ".", "5">>) }

\* NumCallers request handlers interleaved step by step
NextConcurrent ==
    \/ LoadContract
    \/ InitTool
    \/ ListOperations
    \/ \E p \in Callers : RunTool(p, ConcurrentNames, ConcurrentInputs)
    \/ \E p \in Callers : OpenSession(p)
    \/ \E p \in Callers : SessionRun(p)
    \/ \E p \in Callers : SessionRunFails(p)
    \/ \E p \in Callers : ReturnRows(p)
    \/ \E p \in Callers : ReturnRowsFails(p)

SpecConcurrent == Init /\ [][NextConcurrent]_vars

\* ------------------------------------------------------------------ claims
Schema(p) == GetInputs(OPERATIONS[req[p].operation])

Known(p) == req[p].operation \in DOMAIN OPERATIONS

Served(p) == Known(p) /\ OPERATIONS[req[p].operation].keys # {}

Present(p, i) == Schema(p)[i].key \in DOMAIN req[p].inputs

Castable(p, i) ==
    /\ Schema(p)[i].type # ""
    /\ Cast(variant, req[p].inputs[Schema(p)[i].key], Schema(p)[i].type).ok

\* the i-th schema field neither lacks a required value nor fails its cast
FieldPasses(p, i) ==
    IF Present(p, i) THEN Castable(p, i) ELSE ~Schema(p)[i].required

NoQuery(p) == sess[p] = 0 /\ ~bound[p].called

\* the whitelist is a check of the executor: server.py has none
WhitelistPasses(p) ==
    (variant # "server" /\ "unit" \in DOMAIN validated[p])
        => validated[p]["unit"] \in allowed_units

AllChecksPass(p) ==
    /\ Served(p)
    /\ \A i \in 1..Len(Schema(p)) : FieldPasses(p, i)
    /\ WhitelistPasses(p)

\* C1: a session is open or session.run has been invoked only in a call whose
\* required-field checks, casts and unit whitelist check all succeeded; a call in
\* which one of them fails ends in an error response with no session opened and
\* no query executed.
C1_QueryOnlyAfterAllChecks ==
    \A p \in Callers :
        /\ (pc[p] \in {"opened", "ran"} \/ sess[p] # 0 \/ bound[p].called)
               => AllChecksPass(p)
        /\ (pc[p] # "idle" /\ ~AllChecksPass(p))
               => /\ pc[p] = "done"
                  /\ resp[p].status \in {400, 404, 500}
                  /\ NoQuery(p)

C1_Witness ==
    \E p \in Callers :
        /\ pc[p] = "ran"
        /\ bound[p].called
        /\ "unit" \in DOMAIN validated[p]
        /\ "threshold" \in DOMAIN validated[p]

\* C2 (as claimed): a call that the unit whitelist rejects, its unit being outside
\* {mm/s, C, dB}, ends with status 400, never 500, and a unit inside the set
\* never fails the whitelist check.
C2_WhitelistViolationIs400 ==
    \A p \in Callers :
        pc[p] = "done" =>
            /\ resp[p].err = "unit" => resp[p].status = 400
            /\ ("unit" \in DOMAIN validated[p] /\ validated[p]["unit"] \in allowed_units)
                   => resp[p].err # "unit"

\* C3: a request whose operation name is not a key of the contract store ends
\* with status 404, whatever its inputs, and never with 400 or 500.
C3_UnknownOperationIs404 ==
    \A p \in Callers :
        (pc[p] # "idle" /\ ~Known(p))
            => /\ pc[p] = "done"
               /\ resp[p].status = 404
               /\ NoQuery(p)

C3_Witness ==
    \E p \in Callers :
        /\ pc[p] = "done"
        /\ ~Known(p)
        /\ DOMAIN OPERATIONS # {}
        /\ DOMAIN req[p].inputs = Keys
        /\ resp[p].status = 404

SchemaKeys(p) == { Schema(p)[i].key : i \in 1..Len(Schema(p)) }

\* C5: in every successful run the keys of the validated inputs are exactly the
\* raw keys the schema declares, and that mapping is what session.run was given
\* and what the response echoes.
C5_ExactlyDeclaredPresentKeys ==
    \A p \in Callers :
        /\ (pc[p] = "done" /\ resp[p].status = 200)
               => /\ Served(p)
                  /\ DOMAIN validated[p] = DOMAIN req[p].inputs \cap SchemaKeys(p)
                  /\ resp[p].inputs_received = validated[p]
                  /\ variant # "server"
                         => (bound[p].called /\ bound[p].params = validated[p])
        /\ bound[p].called
               => /\ bound[p].params = validated[p]
                  /\ DOMAIN bound[p].params = DOMAIN req[p].inputs \cap SchemaKeys(p)

\* a raw key outside the schema was dropped and an optional schema key was not added
C5_Witness ==
    \E p \in Callers :
        /\ pc[p] = "done"
        /\ resp[p].status = 200
        /\ bound[p].called
        /\ "extra" \in DOMAIN req[p].inputs
        /\ "extra" \notin DOMAIN bound[p].params
        /\ "unit" \in DOMAIN bound[p].params
        /\ "threshold" \in SchemaKeys(p)
        /\ "threshold" \notin DOMAIN bound[p].params

Holders(sid) == { p \in Callers : sess[p] = sid }

\* C6: every session the driver has open is held by a call that is inside its
\* `with` block; a call that has returned or raised holds none.
C6_NoSessionOutlivesItsCall ==
    /\ \A sid \in live : \E p \in Holders(sid) : pc[p] \in {"opened", "ran"}
    /\ \A p \in Callers : pc[p] \in {"idle", "checked", "done"} => sess[p] = 0

\* a call failed inside the `with` block while another call held its session
C6_Witness ==
    \E p, q \in Callers :
        /\ pc[p] = "done"
        /\ resp[p].err = "execution"
        /\ bound[p].called
        /\ sess[q] # 0
        /\ live = {sess[q]}

\* C7: no two calls hold the same session, and the session a call holds is one
\* the driver created for it and still has open.
C7_SessionPerCall ==
    /\ \A p, q \in Callers : (p # q /\ sess[p] # 0) => sess[p] # sess[q]
    /\ \A p \in Callers : sess[p] # 0 => (sess[p] \in live /\ sess[p] < nextSid)
    /\ \A sid \in live : Cardinality(Holders(sid)) = 1

C7_Witness ==
    \E p, q \in Callers :
        /\ p # q
        /\ pc[p] = "ran"
        /\ pc[q] = "ran"
        /\ sess[p] # sess[q]

NumEq(a, b) == a.n * Pow10(b.e) = b.n * Pow10(a.e)

Numeric(v) == v.t \in {"int", "float"}

\* text Python reads as a number: digits with at most one decimal point
NumericText(v) ==
    /\ v.t = "str"
    /\ NoDots(v.s) # <<>>
    /\ Len(v.s) - Len(NoDots(v.s)) <= 1
    /\ \A i \in 1..Len(NoDots(v.s)) : IsDigit(NoDots(v.s)[i])

\* C8 (as claimed): for a field of type number, in every variant, a numeric input
\* reaches the validated inputs with its value, text with a decimal point becomes a
\* float, text without one becomes an int, and text that is not numeric fails the
\* call with status 400.
C8_NumberCastInEveryVariant ==
    \A p \in Callers :
        (pc[p] # "idle" /\ Served(p)) =>
            \A i \in 1..Len(Schema(p)) :
                (Schema(p)[i].type = "number" /\ Present(p, i)) =>
                    LET k == Schema(p)[i].key
                        raw == req[p].inputs[k]
                    IN  /\ (raw.t = "str" /\ ~NumericText(raw))
                               => (pc[p] = "done" /\ resp[p].status = 400)
                        /\ k \in DOMAIN validated[p] =>
                            /\ Numeric(raw) => NumEq(validated[p][k], raw)
                            /\ (NumericText(raw) /\ HasDot(raw.s))
                                   => validated[p][k].t = "float"
                            /\ (NumericText(raw) /\ ~HasDot(raw.s))
                                   => validated[p][k].t = "int"

\* C9 (as claimed): a contract source that is absent, malformed or without the
\* top-level operations section never leads to a serving process.
C9_NoServingWithoutOperationsSection ==
    (contractFile.kind # "json" \/ ~contractFile.hasOps) => phase # "serving"

\* C10 (as claimed): run on a listed name never ends with 404 nor with the
\* executor's "Unknown operation", and run on a name that list_operations does
\* not return ends with 404.
C10_ListedOperationsRun ==
    \A p \in Callers :
        pc[p] = "done" =>
            /\ req[p].operation \in listed
                   => (resp[p].status # 404 /\ resp[p].err # "unknown_operation")
            /\ req[p].operation \notin list_operations(OPERATIONS)
                   => resp[p].status = 404

====
